---- MODULE Spec2Model ----
(***************************************************************************)
(* Observable / System simulation engine of graph-turbulence               *)
(* (src/core/observable.py) as a state machine.                            *)
(*                                                                         *)
(* Conventions.  Python indices are 0-based, the model's are 1-based.      *)
(* A vertex key v is the 1-tuple <<v>>, an edge key (u, v) the pair        *)
(* <<u, v>>.  A dict is the sequence of its <<key, value>> items in        *)
(* insertion order.  An optional object (the integrator) is <<>> for None  *)
(* and <<r>> for the object r.  Values and times are integers.             *)
(* scipy's RK45 is modelled as a one-stage explicit integrator whose       *)
(* sub-step size is any h with 0 < h <= min(max_step, t_bound - t).        *)
(***************************************************************************)
EXTENDS Integers, Sequences, FiniteSets, TLC

VARIABLES
    obs,     \* id -> the Observable object's fields
    sys,     \* System.observables of the System built by the script (<<>>: none)
    pc,      \* position inside a running step() loop
    last,    \* the call that returned last, and how it returned
    hist,    \* id -> what the script has done with the Observable so far
    scene,   \* which script runs: it fixes the Observables that are driven
    view     \* the viewer process: its listener thread and its event loop

vars == <<obs, sys, pc, last, hist, scene, view>>

----------------------------------------------------------------------------
(* Bounds of the model *)

MaxT == 2
MaxDt == 2
MaxKw == 1
MaxOrder == 2
MaxMembers == 2
MaxT0 == 1
MaxMsgs == 3
MaxSystems == 2

(* Program constants *)

\* np.inf: default max_step of set_ode, and the t_bound given to RK45
Inf == 999
\* (np.abs(y) > 2.0).any() of the example's nonphysical predicate
Thr == 2

None == "None"

----------------------------------------------------------------------------
(* Graphs and the Observables the script constructs *)

ObsIds == {"p", "q", "v", "w"}

\* G: the path 1 - 2 - 3;  H: its subgraph on {2, 3}
Nodes(g) ==
    IF g = "G" THEN <<1, 2, 3>> ELSE <<2, 3>>

Edges(g) ==
    IF g = "G" THEN << <<1, 2>>, <<2, 3>> >> ELSE << <<2, 3>> >>

ObsKind(o) ==
    IF o \in {"p", "q"} THEN "VertexObservable" ELSE "EdgeObservable"

ObsGraph(o) ==
    IF o \in {"p", "v"} THEN "G" ELSE "H"

\* init_domain giving every index the first key
Domain_first_key(o) ==
    IF ObsKind(o) = "VertexObservable"
    THEN [i \in 1..Len(Nodes(ObsGraph(o))) |-> <<Nodes(ObsGraph(o))[1]>>]
    ELSE [i \in 1..Len(Edges(ObsGraph(o))) |-> Edges(ObsGraph(o))[1]]

\* init_domain: dict(zip(G.nodes(), count())) / dict(zip(G.edges(), count())),
\* as the sequence of keys in index order
Domain(o) ==
    IF ObsKind(o) = "VertexObservable"
    THEN [i \in 1..Len(Nodes(ObsGraph(o))) |-> <<Nodes(ObsGraph(o))[i]>>]
    ELSE Edges(ObsGraph(o))

\* __len__: self.n = len(self.domain)
N(o) == Len(Domain(o))

InDomain(o, k) == \E i \in 1..N(o) : Domain(o)[i] = k

\* self.domain[k]
DomainIndex(o, k) == CHOOSE i \in 1..N(o) : Domain(o)[i] = k

Zeros(m) == [i \in 1..m |-> 0]

----------------------------------------------------------------------------
(* Helpers *)

Min(a, b) == IF a <= b THEN a ELSE b

Range(s) == {s[i] : i \in 1..Len(s)}

\* dict views
Keys(d) == [i \in 1..Len(d) |-> d[i][1]]
Vals(d) == [i \in 1..Len(d) |-> d[i][2]]

\* utils.replace(arr, idx, vals): a copy of arr with arr[idx[j]] = vals[j]
Replace(arr, idx, vals) ==
    [i \in 1..Len(arr) |->
        IF \E j \in 1..Len(idx) : idx[j] = i
        THEN vals[CHOOSE j \in 1..Len(idx) :
                     idx[j] = i /\ \A j2 \in 1..Len(idx) : idx[j2] = i => j2 <= j]
        ELSE arr[i]]

\* The initial-condition functions the script passes (y0 and the named
\* higher-order ones), evaluated at a domain element
ICValue(fn, x) ==
    IF fn = "zero" THEN 0
    ELSE IF fn = "one" THEN 1
    ELSE x[1] - 1                                    \* "ramp"

\* populate: np.array([f(x) for x in self.domain.keys()])
Populate(o, fn) == [i \in 1..N(o) |-> ICValue(fn, Domain(o)[i])]

\* The nonphysical predicates the script installs
NonPhysical(pred, y) ==
    IF pred = "never" THEN FALSE
    ELSE \E i \in 1..Len(y) : y[i] > Thr \/ y[i] < -Thr

----------------------------------------------------------------------------
(* Observable.__init__ *)

\* f and order are attributes only set_ode creates: None and 0 stand for
\* "not set", and they are read only once an integrator exists
NewObservable(o) ==
    [integrator |-> <<>>,
     track_other |-> None,
     y |-> Zeros(N(o)),
     y0 |-> "zero",
     t |-> 0,
     t0 |-> 0,
     init_kwargs |-> <<>>,
     fixed_idx |-> <<>>,
     dirichlet_values |-> <<>>,
     neumann_values |-> <<>>,
     neumann_vec |-> Zeros(N(o)),
     order |-> 0,
     f |-> None,
     nonphysical |-> "never"]

\* What a call hands back: the objects after it, and how it ended
Returned(S) == [S |-> S, ok |-> TRUE, err |-> "none"]
Raised(S, e) == [S |-> S, ok |-> FALSE, err |-> e]

----------------------------------------------------------------------------
(* ODE & updating *)

\* The right-hand sides f(t) the script installs.  They are closures over the
\* Observable and read its current y when called.
RHS(f, S, o) ==
    IF f = "one" THEN [i \in 1..N(o) |-> 1]
    ELSE [i \in 1..N(o) |-> -S[o].y[i]]              \* "decay"

\* set_ode's closure g(t, y): f and order are the arguments of the set_ode call
\* that built it, self.fixed_idx is read when g is called
G(S, o, f, order, y) ==
    LET n == N(o)
        top == Replace(RHS(f, S, o), S[o].fixed_idx, Zeros(Len(S[o].fixed_idx)))
    IN [j \in 1..Len(y) |->
          IF j <= n * (order - 1) THEN y[j + n] ELSE top[j - n * (order - 1)]]

\* scipy.integrate.RK45(self.g, self.t, y0, np.inf, max_step=max_step)
RK45(f, order, t, y0, max_step) ==
    [t |-> t, y |-> y0, t_bound |-> Inf, status |-> "running",
     max_step |-> max_step, f |-> f, order |-> order]

\* y0 of set_ode: self.y, then one block per init_kwargs value in order, zeros
\* where no initial condition was given
AugmentedY0(o, y, order, kw) ==
    LET n == N(o)
        base == y \o Zeros((order - 1) * n)
    IN [j \in 1..Len(base) |->
          IF j > n /\ ((j - 1) \div n) <= Len(kw)
          THEN Populate(o, kw[(j - 1) \div n])[((j - 1) % n) + 1]
          ELSE base[j]]

\* The slice assignment y0[(i+1)*n:(i+2)*n] = populate(y0_i) raises ValueError
\* when the slice is empty, unless the assigned array has length 1
KwargsFit(o, order, kw) ==
    N(o) = 1 \/ Len(kw) <= order - 1

\* np.concatenate((self.y, np.zeros(...))) raises ValueError unless self.y is
\* one-dimensional. An (n, m) array, m > 1, is kept as the sequence of its
\* n * m entries row after row, so that a vector is a y of length n.
IsVector(o, y) ==
    Len(y) = N(o)

set_ode(S, o, f, order, max_step) ==
    LET S1 == [S EXCEPT ![o].f = f, ![o].order = order]
    IN IF ~IsVector(o, S1[o].y) \/ ~KwargsFit(o, order, S1[o].init_kwargs)
       THEN Raised(S1, "ValueError")
       ELSE Returned([S1 EXCEPT ![o].integrator =
                <<RK45(f, order, S1[o].t,
                       AugmentedY0(o, S1[o].y, order,
                                   SubSeq(S1[o].init_kwargs, 1,
                                          Min(Len(S1[o].init_kwargs), order - 1))),
                       max_step)>>])

\* track without the assertion on the domains
track_any_domain(S, o, other) ==
    IF ObsKind(o) # ObsKind(other) THEN Raised(S, "AssertionError")
    ELSE IF S[o].integrator # <<>> THEN Raised(S, "AssertionError")
    ELSE Returned([S EXCEPT ![o].track_other = other])

track(S, o, other) ==
    IF ObsKind(o) # ObsKind(other) THEN Raised(S, "AssertionError")
    ELSE IF S[o].integrator # <<>> THEN Raised(S, "AssertionError")
    ELSE IF \E i \in 1..N(o) : ~InDomain(other, Domain(o)[i])
         THEN Raised(S, "AssertionError")
    ELSE Returned([S EXCEPT ![o].track_other = other])

----------------------------------------------------------------------------
(* Initial & boundary conditions *)

\* set_initial keeping the time it finds as t0
set_initial_swaps_times(S, o, t0, y0, kwargs) ==
    LET S1 == [S EXCEPT ![o].t0 = S[o].t, ![o].t = t0, ![o].y0 = y0,
                        ![o].y = Populate(o, y0), ![o].init_kwargs = kwargs]
    IN IF S1[o].integrator = <<>> THEN Returned(S1)
       ELSE IF Len(kwargs) # S1[o].order - 1 THEN Raised(S1, "AssertionError")
       ELSE set_ode(S1, o, S1[o].f, S1[o].order, Inf)

\* set_initial asserting the count of kwargs whether or not an integrator exists
set_initial_always_asserts(S, o, t0, y0, kwargs) ==
    LET S1 == [S EXCEPT ![o].t0 = t0, ![o].t = t0, ![o].y0 = y0,
                        ![o].y = Populate(o, y0), ![o].init_kwargs = kwargs]
    IN IF Len(kwargs) # S1[o].order - 1 THEN Raised(S1, "AssertionError")
       ELSE IF S1[o].integrator = <<>> THEN Returned(S1)
       ELSE set_ode(S1, o, S1[o].f, S1[o].order, Inf)

set_initial(S, o, t0, y0, kwargs) ==
    LET S1 == [S EXCEPT ![o].t0 = t0, ![o].t = t0, ![o].y0 = y0,
                        ![o].y = Populate(o, y0), ![o].init_kwargs = kwargs]
    IN IF S1[o].integrator = <<>> THEN Returned(S1)
       ELSE IF Len(kwargs) # S1[o].order - 1 THEN Raised(S1, "AssertionError")
       ELSE set_ode(S1, o, S1[o].f, S1[o].order, Inf)

\* set_boundary storing the maps before it tests them for overlap
set_boundary_store_first(S, o, dirichlet_values, neumann_values) ==
    LET S1 == [S EXCEPT ![o].dirichlet_values = dirichlet_values,
                        ![o].neumann_values = neumann_values]
        nkeys == Keys(neumann_values)
        dkeys == Keys(dirichlet_values)
        S2 == [S1 EXCEPT ![o].neumann_vec =
                 Replace(Zeros(N(o)),
                         [i \in 1..Len(nkeys) |-> DomainIndex(o, nkeys[i])],
                         Vals(neumann_values))]
        fixed_idx == [i \in 1..Len(dkeys) |-> DomainIndex(o, dkeys[i])]
        S3 == [S2 EXCEPT ![o].fixed_idx = fixed_idx,
                         ![o].y = Replace(S2[o].y, fixed_idx, Vals(dirichlet_values))]
    IN IF Range(dkeys) \cap Range(nkeys) # {} THEN Raised(S1, "AssertionError")
       ELSE IF \E k \in Range(nkeys) : ~InDomain(o, k) THEN Raised(S1, "KeyError")
       ELSE IF \E k \in Range(dkeys) : ~InDomain(o, k) THEN Raised(S2, "KeyError")
       ELSE IF S3[o].integrator = <<>> THEN Returned(S3)
       ELSE set_ode(S3, o, S3[o].f, S3[o].order, Inf)

set_boundary(S, o, dirichlet_values, neumann_values) ==
    LET S1 == [S EXCEPT ![o].dirichlet_values = dirichlet_values,
                        ![o].neumann_values = neumann_values]
        nkeys == Keys(neumann_values)
        dkeys == Keys(dirichlet_values)
        S2 == [S1 EXCEPT ![o].neumann_vec =
                 Replace(Zeros(N(o)),
                         [i \in 1..Len(nkeys) |-> DomainIndex(o, nkeys[i])],
                         Vals(neumann_values))]
        fixed_idx == [i \in 1..Len(dkeys) |-> DomainIndex(o, dkeys[i])]
        S3 == [S2 EXCEPT ![o].fixed_idx = fixed_idx,
                         ![o].y = Replace(S2[o].y, fixed_idx, Vals(dirichlet_values))]
    IN IF Range(dkeys) \cap Range(nkeys) # {} THEN Raised(S, "AssertionError")
       ELSE IF \E k \in Range(nkeys) : ~InDomain(o, k) THEN Raised(S1, "KeyError")
       ELSE IF \E k \in Range(dkeys) : ~InDomain(o, k) THEN Raised(S2, "KeyError")
       ELSE IF S3[o].integrator = <<>> THEN Returned(S3)
       ELSE set_ode(S3, o, S3[o].f, S3[o].order, Inf)

----------------------------------------------------------------------------
(* Integration *)

\* _measure_integrator refreshing y but not t
measure_integrator_keep_t(S, o) ==
    [S EXCEPT ![o].y = SubSeq(S[o].integrator[1].y, 1, N(o))]

\* _measure_integrator
measure_integrator(S, o) ==
    [S EXCEPT ![o].t = S[o].integrator[1].t,
              ![o].y = SubSeq(S[o].integrator[1].y, 1, N(o))]

\* `e in self.orientation`: orientation is the float array np.ones(m), so the
\* test is (orientation == e).any(): e broadcasts against the m ones when
\* m is 1 or 2, and then it holds iff an endpoint of e equals 1; for other m
\* the comparison cannot broadcast.
InOrientation(o, e) ==
    N(o) \in {1, 2} /\ (e[1] = 1 \/ e[2] = 1)

\* __call__
Call(S, o, x) ==
    IF ObsKind(o) = "VertexObservable" THEN S[o].y[DomainIndex(o, x)]
    ELSE IF InOrientation(o, x) THEN S[o].y[DomainIndex(o, x)]
    ELSE -S[o].y[DomainIndex(o, x)]

\* measure, up to the nonphysical test (self.plot is None: rendering is left out)
Refreshed(S, o) ==
    IF S[o].integrator # <<>> THEN measure_integrator(S, o)
    ELSE IF S[o].track_other # None
    THEN [S EXCEPT ![o].t = S[S[o].track_other].t,
                   ![o].y = [i \in 1..N(o) |-> Call(S, S[o].track_other, Domain(o)[i])]]
    ELSE S

\* measure without the nonphysical test
measure_unchecked(S, o) ==
    Returned(Refreshed(S, o))

measure(S, o) ==
    LET S1 == Refreshed(S, o)
    IN IF NonPhysical(S1[o].nonphysical, S1[o].y)
       THEN Raised(S1, "Non-physical solution")
       ELSE Returned(S1)

\* reset re-applying the initial condition only
RECURSIVE SumSeq(_)
SumSeq(s) ==
    IF s = <<>> THEN 0 ELSE Head(s) + SumSeq(Tail(s))

\* The sub-step sizes solve_ivp may take to cover a span d
SolverSteps(d) ==
    {hs \in UNION {[1..k -> 1..d] : k \in 1..d} : SumSeq(hs) = d}

\* sol.y of solve_ivp(self.g, (t0, tf), y0), one state per time point; g reads
\* f(t), and so the Observables as they are when integrate is called
RECURSIVE Solution(_, _, _, _)
Solution(S, o, y, hs) ==
    IF hs = <<>> THEN <<y>>
    ELSE LET dy == G(S, o, S[o].f, S[o].order, y)
         IN <<y>> \o Solution(S, o, [j \in 1..Len(y) |-> y[j] + Head(hs) * dy[j]],
                               Tail(hs))

\* integrate(t0, tf); self.order does not exist before set_ode (AttributeError)
integrate(S, o, t0, tf, hs) ==
    IF S[o].order = 0 THEN Raised(S, "AttributeError")
    ELSE IF ~IsVector(o, S[o].y) \/ ~KwargsFit(o, S[o].order, S[o].init_kwargs)
    THEN Raised(S, "ValueError")
    ELSE LET kw == S[o].init_kwargs
             y0 == AugmentedY0(o, S[o].y, S[o].order,
                               SubSeq(kw, 1, Min(Len(kw), S[o].order - 1)))
             sol == Solution(S, o, y0, hs)
             m == Len(sol)
         IN Returned([S EXCEPT ![o].t = tf,
                               ![o].y = [j \in 1..(N(o) * m) |->
                                           sol[((j - 1) % m) + 1][((j - 1) \div m) + 1]]])

reset_initial_only(S, o) ==
    LET src == IF S[o].track_other = None THEN o ELSE S[o].track_other
    IN set_initial(S, o, S[src].t0, S[src].y0,
                   IF S[o].track_other = None THEN S[o].init_kwargs ELSE <<>>)

reset(S, o) ==
    LET src == IF S[o].track_other = None THEN o ELSE S[o].track_other
        r1 == set_initial(S, o, S[src].t0, S[src].y0,
                          IF S[o].track_other = None THEN S[o].init_kwargs ELSE <<>>)
    IN IF ~r1.ok THEN r1
       ELSE set_boundary(r1.S, o, r1.S[src].dirichlet_values, r1.S[src].neumann_values)

set_nonphysical(S, o, pred) ==
    Returned([S EXCEPT ![o].nonphysical = pred])

\* One sub-step of scipy's OdeSolver.step on o's integrator, h being the size
\* RK45 settles on (ignored when the solver already stands at t_bound)
RK45_step(S, o, h) ==
    LET ig == S[o].integrator[1]
        dy == G(S, o, ig.f, ig.order, ig.y)
        t_new == ig.t + h
    IN IF ig.t = ig.t_bound THEN [ig EXCEPT !.status = "finished"]
       ELSE [ig EXCEPT !.t = t_new,
                       !.y = [j \in 1..Len(ig.y) |-> ig.y[j] + h * dy[j]],
                       !.status = IF t_new >= ig.t_bound THEN "finished" ELSE "running"]

\* The sizes RK45 may take for the next sub-step: at most max_step and never
\* past t_bound (no move is made when the solver stands at t_bound)
StepSizes(ig) ==
    IF ig.t_bound > ig.t THEN 1..Min(ig.max_step, ig.t_bound - ig.t)
    ELSE {0}

\* The calls step(dt) the scripts make: the time stays within MaxT, and the
\* bound t + dt is not behind the time the integrator stands at
StepAllowed(S, o, dt) ==
    /\ S[o].t + dt <= MaxT
    /\ S[o].integrator # <<>> => S[o].integrator[1].t <= S[o].t + dt

\* step, before its loop: the bound and the status it sets
step_begin(S, o, dt) ==
    [S EXCEPT ![o].integrator[1].t_bound = S[o].t + dt,
              ![o].integrator[1].status = "running"]

\* step with no integrator moving the time on by dt
step_enter_advances(S, o, dt) ==
    IF S[o].integrator = <<>> THEN [S EXCEPT ![o].t = @ + dt]
    ELSE step_begin(S, o, dt)

\* step, up to its loop: nothing is done when there is no integrator
step_enter(S, o, dt) ==
    IF S[o].integrator = <<>> THEN S
    ELSE step_begin(S, o, dt)

\* step, one turn of its loop: integrator.step() then _measure_integrator()
step_turn(S, o, h) ==
    measure_integrator([S EXCEPT ![o].integrator[1] = RK45_step(S, o, h)], o)

----------------------------------------------------------------------------
(* System *)

\* type(o) of the members, for len(set([type(o) for o in observables]))
TypesOf(observables) == {ObsKind(observables[i]) : i \in 1..Len(observables)}

\* System.__init__ without the assertion on the members' types
SystemAccepts_any_types(observables) ==
    /\ Len(observables) > 0
    /\ \A i \in 1..Len(observables) : ObsGraph(observables[1]) = ObsGraph(observables[i])

\* System.__init__: TRUE when its three assertions pass
SystemAccepts(observables) ==
    /\ Len(observables) > 0
    /\ Len(observables) = Cardinality(TypesOf(observables))
    /\ \A i \in 1..Len(observables) : ObsGraph(observables[1]) = ObsGraph(observables[i])

\* System.measure: the members in order, stopping at the first that raises
RECURSIVE MeasureAll(_, _)
MeasureAll(S, members) ==
    IF members = <<>> THEN Returned(S)
    ELSE LET r == measure(S, Head(members))
         IN IF r.ok THEN MeasureAll(r.S, Tail(members)) ELSE r

\* System.reset
RECURSIVE ResetAll(_, _)
ResetAll(S, members) ==
    IF members = <<>> THEN Returned(S)
    ELSE LET r == reset(S, Head(members))
         IN IF r.ok THEN ResetAll(r.S, Tail(members)) ELSE r

\* System.step walks the members; those with no integrator return at once
RECURSIVE NextStepper(_, _)
NextStepper(S, members) ==
    IF members = <<>> THEN <<>>
    ELSE IF S[Head(members)].integrator # <<>> THEN members
    ELSE NextStepper(S, Tail(members))

\* all members at one time
Synced(S, members) ==
    \A i, j \in 1..Len(members) : S[members[i]].t = S[members[j]].t

----------------------------------------------------------------------------
(* The scripts: which Observables they drive, the calls they make and the  *)
(* arguments they pass                                                     *)

\* "ode": one Observable, its ODE order, initial and boundary conditions.
\* "physical": one Observable with a nonphysical predicate and two
\*     right-hand sides.
\* "track_vertex", "track_edge": a source on G and a tracker on the subgraph H.
\* "integrate": one Observable solved over a time span by integrate().
\* "system": the two members of a System on G (examples/fluid.py), driven
\*     through the System once they are configured.
Scenes == {"ode", "physical", "track_vertex", "track_edge", "system", "integrate"}

Source ==
    IF scene = "track_edge" THEN "v" ELSE "p"

Tracker ==
    IF scene = "track_edge" THEN "w" ELSE "q"

Driven ==
    IF scene = "ode" THEN {"p"}
    ELSE IF scene \in {"physical", "integrate"} THEN {"q"}
    ELSE IF scene = "system" THEN {"v", "p"}
    ELSE {Source, Tracker}

\* The calls a script makes on Observable o
Calls(o) ==
    IF scene = "ode"
    THEN {"set_ode", "set_initial", "set_boundary", "step", "measure", "reset"}
    ELSE IF scene = "physical"
    THEN {"track", "set_ode", "set_initial", "set_nonphysical", "step", "measure",
          "reset"}
    ELSE IF scene = "system"
    THEN {"set_ode", "set_initial", "track"}
    ELSE IF scene = "integrate"
    THEN {"set_ode", "set_initial", "integrate", "step", "measure"}
    ELSE IF o = Source
    THEN {"set_ode", "set_boundary", "step"}
    ELSE {"track", "step", "measure", "reset"}

Idle == [mode |-> "idle", who |-> None, rest |-> <<>>, dt |-> 0, t_pre |-> 0,
         sub |-> FALSE, sysop |-> FALSE, synced |-> FALSE]

\* The record of a call that returned (ok) or raised (err)
Done(op, who, r) ==
    [op |-> op, who |-> who, ok |-> r.ok, err |-> r.err, t_pre |-> 0, dt |-> 0,
     synced |-> FALSE, arg |-> <<>>]

\* hist after the call op on o: configured records that a set_initial returned,
\* pinned that a set_boundary returned and only step calls were made since
Noted(h, o, op, ok) ==
    [h EXCEPT ![o] = [configured |-> @.configured \/ (op = "set_initial" /\ ok),
                      pinned |-> IF op = "set_boundary" THEN ok
                                 ELSE IF op = "step" THEN @.pinned
                                 ELSE FALSE]]

\* hist after a System call that measured or reset the members
NotedAll(h, members) ==
    [o \in ObsIds |->
        IF o \in Range(members) THEN [h[o] EXCEPT !.pinned = FALSE] ELSE h[o]]

\* **kwargs of set_initial: up to MaxKw named higher-order initial conditions
KwSeqs == UNION {[1..k -> {"one"}] : k \in 0..MaxKw}

\* (f, order, max_step) of set_ode
OdeArgs ==
    IF scene = "ode" THEN {"one"} \X (1..MaxOrder) \X {1, Inf}
    ELSE IF scene = "integrate" THEN {"one"} \X (1..MaxOrder) \X {Inf}
    ELSE IF scene = "physical" THEN {"one", "decay"} \X {1} \X {1, Inf}
    ELSE {<<"one", 1, Inf>>}

\* (t0, y0, kwargs) of set_initial
InitArgs ==
    IF scene \in {"ode", "integrate"} THEN {0} \X {"ramp"} \X KwSeqs
    ELSE (0..MaxT0) \X {"ramp"} \X {<<>>}

Preds == {"never", "big"}

\* An element of H (and G), and one of G only
KeyA(o) == IF ObsKind(o) = "VertexObservable" THEN <<2>> ELSE <<2, 3>>
KeyB(o) == IF ObsKind(o) = "VertexObservable" THEN <<1>> ELSE <<1, 2>>

\* (dirichlet_values, neumann_values) of set_boundary
BoundaryArgs(o) ==
    { << <<>>, <<>> >>,
      << << <<KeyA(o), 2>> >>, << <<KeyB(o), 1>> >> >> }
    \cup (IF scene = "ode"
          THEN { << << <<KeyA(o), 2>> >>, << <<KeyA(o), 1>> >> >> }
          ELSE { << << <<KeyA(o), 2>> >>, <<>> >>,
                 << << <<KeyB(o), 2>> >>, << <<KeyA(o), 1>> >> >> })

\* (t0, tf) of integrate
IntegrateArgs == {0} \X (1..MaxT)

\* The lists a script may hand to System(...)
MemberLists == UNION {[1..k -> ObsIds] : k \in 0..MaxMembers}

----------------------------------------------------------------------------
(* The viewer process (rendering/bokeh_server.py): a listener thread that   *)
(* receives the published messages, and the event loop of the document,    *)
(* which runs the callbacks handed to it one after the other               *)

\* A callback runs in two steps, so that what the other thread does while it
\* runs is seen. active holds, per thread, the callback that is touching the
\* renderers, the plots or the document.
NewViewer ==
    [net |-> <<>>,        \* messages published and not yet received, in order
     sent |-> 0,          \* messages published so far (they are numbered)
     listener |-> <<>>,   \* the msg stream_data holds between rx() and the enqueue
     ticks |-> <<>>,      \* next-tick callbacks of the loop, in the order added
     label |-> "Play",    \* pp_button.label
     periodic |-> 0,      \* periodic callbacks update registered on the doc
     active |-> {},       \* <<thread, callback>> pairs that are running
     cur |-> 0,           \* the msg of the react that is running
     handled |-> <<>>,    \* the msgs react has handled, in order
     bodies |-> <<>>,     \* the dict each published msg carries, by number
     renderers |-> <<>>,  \* the global renderers: the systems loaded
     plots |-> {},        \* the keys of the global plots
     grids |-> 0,         \* grids appended to root.children
     errs |-> {}]         \* <<callback, exception>> pairs raised so far

\* the dict render_live publishes for a list of k systems
render_live(k) ==
    [tag |-> "init", key |-> "systems", n |-> k]

\* The dicts that may arrive on the channel: tag is msg['tag'], key the name
\* of the field that carries the pickled list, n the length of that list
Messages ==
    {render_live(k) : k \in 1..MaxSystems}
    \cup {[tag |-> "init", key |-> "renderers", n |-> k] : k \in 1..MaxSystems}
    \cup {[tag |-> "data", key |-> "values", n |-> 0]}

\* react(msg): an init message replaces the renderers by the list unpickled
\* from msg['renderers'] and adds a plot per renderer and one grid
react(v, msg) ==
    IF msg.tag # "init" THEN v
    ELSE IF msg.key # "renderers"
    THEN [v EXCEPT !.errs = @ \cup {<<"react", "KeyError">>}]
    ELSE [v EXCEPT !.renderers = [i \in 1..msg.n |-> i],
                   !.plots = @ \cup (1..msg.n),
                   !.grids = @ + 1]

\* pp_button_cb: Play registers the periodic callback update, Pause removes it
pp_button_cb(v) ==
    IF v.label = "Play"
    THEN [v EXCEPT !.label = "Pause", !.periodic = @ + 1]
    ELSE [v EXCEPT !.label = "Play", !.periodic = @ - 1]

\* update and reset_button_cb: the loop over the renderers, then the read of
\* renderers[0].t
reads_first_renderer(v, cb) ==
    IF v.renderers = <<>>
    THEN [v EXCEPT !.errs = @ \cup {<<cb, "IndexError">>}]
    ELSE v

\* stream_data calling react(msg) itself, on the listener thread
deliver_runs_react(v, msg) ==
    [v EXCEPT !.listener = <<>>, !.cur = msg,
              !.active = @ \cup {<<"listener", "react">>}]

\* stream_data: doc.add_next_tick_callback(partial(react, msg=msg))
deliver(v, msg) ==
    [v EXCEPT !.ticks = Append(@, msg), !.listener = <<>>]

\* the loop takes up a callback only when it runs none
LoopFree(v) ==
    \A a \in v.active : a[1] # "loop"

\* the callback cb has run to its end on thread th
finish(v, th, cb) ==
    LET v1 == [v EXCEPT !.active = @ \ {<<th, cb>>}]
    IN IF cb = "react"
       THEN [react(v1, v.bodies[v.cur]) EXCEPT !.handled = Append(@, v.cur),
                                               !.cur = 0]
       ELSE IF cb = "pp_button_cb" THEN pp_button_cb(v1)
       ELSE reads_first_renderer(v1, cb)

----------------------------------------------------------------------------
(* State machine *)

Init ==
    /\ obs = [o \in ObsIds |-> NewObservable(o)]
    /\ sys = <<>>
    /\ pc = Idle
    /\ last = Done("init", None, Returned(obs))
    /\ hist = [o \in ObsIds |-> [configured |-> FALSE, pinned |-> FALSE]]
    /\ scene \in Scenes
    /\ view = NewViewer

SetOde(o) ==
    /\ pc.mode = "idle"
    /\ "set_ode" \in Calls(o)
    /\ \E a \in OdeArgs :
         LET r == set_ode(obs, o, a[1], a[2], a[3])
         IN /\ obs' = r.S
            /\ last' = Done("set_ode", o, r)
            /\ hist' = Noted(hist, o, "set_ode", r.ok)
    /\ UNCHANGED <<sys, pc, scene, view>>

Track(o) ==
    /\ pc.mode = "idle"
    /\ "track" \in Calls(o)
    /\ \E other \in ObsIds \ {o} :
         LET r == track(obs, o, other)
         IN /\ obs' = r.S
            /\ last' = [Done("track", o, r) EXCEPT !.arg = <<other>>]
            /\ hist' = Noted(hist, o, "track", r.ok)
    /\ UNCHANGED <<sys, pc, scene, view>>

SetInitial(o) ==
    /\ pc.mode = "idle"
    /\ "set_initial" \in Calls(o)
    /\ \E a \in InitArgs :
         LET r == set_initial(obs, o, a[1], a[2], a[3])
         IN /\ obs' = r.S
            /\ last' = Done("set_initial", o, r)
            /\ hist' = Noted(hist, o, "set_initial", r.ok)
    /\ UNCHANGED <<sys, pc, scene, view>>

SetBoundary(o) ==
    /\ pc.mode = "idle"
    /\ "set_boundary" \in Calls(o)
    /\ \E a \in BoundaryArgs(o) :
         LET r == set_boundary(obs, o, a[1], a[2])
         IN /\ obs' = r.S
            /\ last' = Done("set_boundary", o, r)
            /\ hist' = Noted(hist, o, "set_boundary", r.ok)
    /\ UNCHANGED <<sys, pc, scene, view>>

SetNonphysical(o) ==
    /\ pc.mode = "idle"
    /\ "set_nonphysical" \in Calls(o)
    /\ \E pred \in Preds :
         LET r == set_nonphysical(obs, o, pred)
         IN /\ obs' = r.S
            /\ last' = Done("set_nonphysical", o, r)
            /\ hist' = Noted(hist, o, "set_nonphysical", r.ok)
    /\ UNCHANGED <<sys, pc, scene, view>>

Measure(o) ==
    /\ pc.mode = "idle"
    /\ "measure" \in Calls(o)
    /\ LET r == measure(obs, o)
       IN /\ obs' = r.S
          /\ last' = Done("measure", o, r)
          /\ hist' = Noted(hist, o, "measure", r.ok)
    /\ UNCHANGED <<sys, pc, scene, view>>

Reset(o) ==
    /\ pc.mode = "idle"
    /\ "reset" \in Calls(o)
    /\ LET r == reset(obs, o)
       IN /\ obs' = r.S
          /\ last' = Done("reset", o, r)
          /\ hist' = Noted(hist, o, "reset", r.ok)
    /\ UNCHANGED <<sys, pc, scene, view>>

Integrate(o) ==
    /\ pc.mode = "idle"
    /\ "integrate" \in Calls(o)
    /\ \E a \in IntegrateArgs :
         \E hs \in SolverSteps(a[2] - a[1]) :
            LET r == integrate(obs, o, a[1], a[2], hs)
            IN /\ obs' = r.S
               /\ last' = [Done("integrate", o, r) EXCEPT !.arg = a]
               /\ hist' = Noted(hist, o, "integrate", r.ok)
    /\ UNCHANGED <<sys, pc, scene, view>>

\* Observable.step(dt) is called: a no-op without an integrator, else the loop
\* is entered
Step(o) ==
    /\ pc.mode = "idle"
    /\ "step" \in Calls(o)
    /\ \E dt \in 1..MaxDt :
         /\ StepAllowed(obs, o, dt)
         /\ obs' = step_enter(obs, o, dt)
         /\ IF obs[o].integrator = <<>>
            THEN /\ last' = [Done("step", o, Returned(obs')) EXCEPT
                                !.t_pre = obs[o].t, !.dt = dt]
                 /\ UNCHANGED pc
            ELSE /\ pc' = [Idle EXCEPT !.mode = "step", !.who = o, !.dt = dt,
                                       !.t_pre = obs[o].t]
                 /\ UNCHANGED last
    /\ UNCHANGED <<sys, hist, scene, view>>

\* One turn of the loop of the step() that is running; when the integrator is
\* finished the call returns, or System.step moves on to its next member
SubStep ==
    /\ pc.mode = "step"
    /\ \E h \in StepSizes(obs[pc.who].integrator[1]) :
         LET S1 == step_turn(obs, pc.who, h)
             nxt == NextStepper(S1, pc.rest)
         IN IF S1[pc.who].integrator[1].status # "finished"
            THEN /\ obs' = S1
                 /\ pc' = [pc EXCEPT !.sub = TRUE]
                 /\ UNCHANGED last
            ELSE IF nxt = <<>>
            THEN /\ obs' = S1
                 /\ pc' = Idle
                 /\ last' = [Done(IF pc.sysop THEN "System.step" ELSE "step",
                                  IF pc.sysop THEN "sys" ELSE pc.who, Returned(S1))
                               EXCEPT !.t_pre = pc.t_pre, !.dt = pc.dt,
                                      !.synced = pc.synced]
            ELSE /\ obs' = step_begin(S1, Head(nxt), pc.dt)
                 /\ pc' = [pc EXCEPT !.who = Head(nxt), !.rest = Tail(nxt),
                                     !.t_pre = S1[Head(nxt)].t, !.sub = FALSE]
                 /\ UNCHANGED last
    /\ UNCHANGED <<sys, hist, scene, view>>

\* System(observables): the script builds one System
SystemInit ==
    /\ pc.mode = "idle"
    /\ scene = "system"
    /\ sys = <<>>
    /\ \E observables \in MemberLists :
         IF SystemAccepts(observables)
         THEN /\ sys' = observables
              /\ last' = [Done("System", "sys", Returned(obs)) EXCEPT
                             !.arg = observables]
         ELSE /\ sys' = sys
              /\ last' = [Done("System", "sys", Raised(obs, "AssertionError")) EXCEPT
                             !.arg = observables]
    /\ UNCHANGED <<obs, pc, hist, scene, view>>

SystemStep ==
    /\ pc.mode = "idle"
    /\ sys # <<>>
    /\ \E dt \in 1..MaxDt :
         LET nxt == NextStepper(obs, sys)
         IN /\ \A i \in 1..Len(sys) : StepAllowed(obs, sys[i], dt)
            /\ IF nxt = <<>>
               THEN /\ last' = [Done("System.step", "sys", Returned(obs)) EXCEPT
                                   !.dt = dt, !.synced = Synced(obs, sys)]
                    /\ UNCHANGED <<obs, pc>>
               ELSE /\ obs' = step_begin(obs, Head(nxt), dt)
                    /\ pc' = [Idle EXCEPT !.mode = "step", !.who = Head(nxt),
                                          !.rest = Tail(nxt), !.dt = dt,
                                          !.t_pre = obs[Head(nxt)].t,
                                          !.sysop = TRUE,
                                          !.synced = Synced(obs, sys)]
                    /\ UNCHANGED last
    /\ UNCHANGED <<sys, hist, scene, view>>

SystemMeasure ==
    /\ pc.mode = "idle"
    /\ sys # <<>>
    /\ LET r == MeasureAll(obs, sys)
       IN /\ obs' = r.S
          /\ last' = [Done("System.measure", "sys", r) EXCEPT
                         !.synced = Synced(obs, sys)]
          /\ hist' = NotedAll(hist, sys)
    /\ UNCHANGED <<sys, pc, scene, view>>

SystemReset ==
    /\ pc.mode = "idle"
    /\ sys # <<>>
    /\ LET r == ResetAll(obs, sys)
       IN /\ obs' = r.S
          /\ last' = [Done("System.reset", "sys", r) EXCEPT
                         !.synced = Synced(obs, sys)]
          /\ hist' = NotedAll(hist, sys)
    /\ UNCHANGED <<sys, pc, scene, view>>

Next ==
    \/ \E o \in Driven : SetOde(o)
    \/ \E o \in Driven : Track(o)
    \/ \E o \in Driven : SetInitial(o)
    \/ \E o \in Driven : SetBoundary(o)
    \/ \E o \in Driven : SetNonphysical(o)
    \/ \E o \in Driven : Measure(o)
    \/ \E o \in Driven : Reset(o)
    \/ \E o \in Driven : Integrate(o)
    \/ \E o \in Driven : Step(o)
    \/ SubStep
    \/ SystemInit
    \/ SystemStep
    \/ SystemMeasure
    \/ SystemReset

Spec == Init /\ [][Next]_vars

----------------------------------------------------------------------------
(* State machine of the viewer process *)

ViewerInit ==
    /\ obs = [o \in ObsIds |-> NewObservable(o)]
    /\ sys = <<>>
    /\ pc = Idle
    /\ last = Done("init", None, Returned(obs))
    /\ hist = [o \in ObsIds |-> [configured |-> FALSE, pinned |-> FALSE]]
    /\ scene = "viewer"
    /\ view = NewViewer

\* what the viewer process leaves alone
simulation == <<obs, sys, pc, last, hist, scene>>

\* the simulator publishes a message
Publish ==
    /\ view.sent < MaxMsgs
    /\ \E m \in Messages :
         view' = [view EXCEPT !.sent = @ + 1, !.net = Append(@, view.sent + 1),
                              !.bodies = Append(@, m)]
    /\ UNCHANGED simulation

\* stream_data: msg = rx()
ListenerReceive ==
    /\ view.listener = <<>>
    /\ view.net # <<>>
    /\ view' = [view EXCEPT !.listener = <<Head(view.net)>>, !.net = Tail(@)]
    /\ UNCHANGED simulation

\* stream_data: the call made with the msg
ListenerDeliver ==
    /\ view.listener # <<>>
    /\ view' = deliver(view, view.listener[1])
    /\ UNCHANGED simulation

\* the loop runs the next-tick callback added first
LoopReact ==
    /\ LoopFree(view)
    /\ view.ticks # <<>>
    /\ view' = [view EXCEPT !.ticks = Tail(@), !.cur = Head(view.ticks),
                             !.active = @ \cup {<<"loop", "react">>}]
    /\ UNCHANGED simulation

\* the loop runs the periodic callback
LoopUpdate ==
    /\ LoopFree(view)
    /\ view.periodic > 0
    /\ view' = [view EXCEPT !.active = @ \cup {<<"loop", "update">>}]
    /\ UNCHANGED simulation

\* a click on Reset or Play/Pause: the loop runs the button's callback
LoopButton ==
    /\ LoopFree(view)
    /\ \E cb \in {"reset_button_cb", "pp_button_cb"} :
         view' = [view EXCEPT !.active = @ \cup {<<"loop", cb>>}]
    /\ UNCHANGED simulation

\* a running callback comes to its end
CallbackReturns ==
    /\ \E a \in view.active : view' = finish(view, a[1], a[2])
    /\ UNCHANGED simulation

ViewerNext ==
    \/ Publish
    \/ ListenerReceive
    \/ ListenerDeliver
    \/ LoopReact
    \/ LoopUpdate
    \/ LoopButton
    \/ CallbackReturns

ViewerSpec == ViewerInit /\ [][ViewerNext]_vars

----------------------------------------------------------------------------
(* Properties *)

Idling == pc.mode = "idle"

\* Observable o has an integrator and its vectors have their lengths
Integrating(o) == obs[o].integrator # <<>>

\* The first len(self) entries of the integrator's state
Top(o) == SubSeq(obs[o].integrator[1].y, 1, N(o))

\* C1: in every reachable state an Observable has at most one of an integrator
\* and a track_other reference.
C1_IntegratorOrTrack ==
    \A o \in ObsIds : ~(Integrating(o) /\ obs[o].track_other # None)

\* Every entry of y at a Dirichlet index equals the value configured for it
Pinned(o) ==
    \A i \in 1..Len(obs[o].dirichlet_values) :
        LET k == obs[o].dirichlet_values[i][1]
        IN InDomain(o, k)
           /\ obs[o].y[DomainIndex(o, k)] = obs[o].dirichlet_values[i][2]

\* C2: once set_boundary(D, N) has returned on an Observable with an
\* integrator, y at every Dirichlet index equals its configured value after
\* any number of step calls that follow.
C2_DirichletPinned ==
    \A o \in ObsIds :
        (Idling /\ Integrating(o) /\ hist[o].pinned) => Pinned(o)

\* y and t are what the integrator holds: its time and the first len(self)
\* entries of its state
InSync(o) ==
    /\ obs[o].t = obs[o].integrator[1].t
    /\ obs[o].y = Top(o)

\* populate(y0) with the entries at the Dirichlet indices overwritten by the
\* configured values
PopulatedPinned(o) ==
    Replace(Populate(o, obs[o].y0), obs[o].fixed_idx, Vals(obs[o].dirichlet_values))

\* reset() has just been called on an Observable that integrates and tracks
\* nothing
ResetCalled(o) ==
    /\ Idling
    /\ last.op = "reset"
    /\ last.who = o
    /\ Integrating(o)
    /\ obs[o].track_other = None

\* C3 (as amended): reset() on an Observable that integrates and tracks nothing
\* restores t = t0; when it returns normally y is populate(y0) overwritten at
\* the Dirichlet indices by their configured values, and the integrator is
\* rebuilt at t0 with that y as the first block of its state.
C3_ResetRestoresPinned ==
    \A o \in ObsIds :
        ResetCalled(o) =>
            /\ obs[o].t = obs[o].t0
            /\ last.ok =>
                 /\ obs[o].y = PopulatedPinned(o)
                 /\ obs[o].integrator[1].t = obs[o].t0
                 /\ Len(obs[o].integrator[1].y) = N(o) * obs[o].order
                 /\ Top(o) = obs[o].y

C3_Witness ==
    /\ ResetCalled("p")
    /\ last.ok
    /\ hist["p"].configured
    /\ obs["p"].dirichlet_values # <<>>
    /\ obs["p"].order = 2

\* C3 (as stated): reset() on an Observable configured with set_initial and
\* any boundary maps restores t = t0 and y = populate(y0), the integrator
\* rebuilt at t0 with that state.
C3_ResetRestoresPopulate ==
    \A o \in ObsIds :
        (ResetCalled(o) /\ last.ok /\ hist[o].configured) =>
            /\ obs[o].t = obs[o].t0
            /\ obs[o].y = Populate(o, obs[o].y0)
            /\ obs[o].integrator[1].t = obs[o].t0
            /\ Top(o) = Populate(o, obs[o].y0)

\* C4: when all members of a System were at one time before a call of
\* System.step, System.measure or System.reset, they are at one time after it.
C4_SystemSynced ==
    (Idling /\ last.op \in {"System.step", "System.measure", "System.reset"}
            /\ last.synced)
        => Synced(obs, sys)

\* The keys of the stored Dirichlet and Neumann maps are disjoint
C5_Disjoint ==
    \A o \in ObsIds :
        Range(Keys(obs[o].dirichlet_values)) \cap Range(Keys(obs[o].neumann_values)) = {}

\* A set_boundary call that fails its overlap assertion (the one call that
\* leaves last as such a record) changes no Observable
C5_OverlapLeavesState ==
    [][(Idling /\ pc' = pc /\ last'.op = "set_boundary"
               /\ last'.err = "AssertionError") => obs' = obs]_vars

\* C5: the stored Dirichlet and Neumann maps never share a key, and a
\* set_boundary call whose maps share a key fails and leaves the stored maps,
\* fixed_idx, neumann_vec, y and the integrator as they were.
C5_BoundaryMapsDisjoint ==
    []C5_Disjoint /\ C5_OverlapLeavesState

C5_Witness ==
    /\ Idling
    /\ last.op = "set_boundary"
    /\ last.err = "AssertionError"
    /\ Integrating(last.who)
    /\ obs[last.who].dirichlet_values # <<>>
    /\ obs[last.who].neumann_values # <<>>

\* C6: step(dt) on an Observable with an integrator returns with the
\* integrator finished at its bound t + dt, t being the time before the call,
\* and every sub-step leaves self.t and self.y as the integrator's time and
\* the first len(self) entries of its state.
C6_StepReachesBound ==
    /\ (pc.mode = "step" /\ pc.sub) => InSync(pc.who)
    /\ \A o \in ObsIds :
         (Idling /\ last.op = "step" /\ last.who = o /\ Integrating(o)) =>
            /\ obs[o].t = last.t_pre + last.dt
            /\ obs[o].integrator[1].status = "finished"
            /\ obs[o].integrator[1].t = obs[o].integrator[1].t_bound
            /\ Len(obs[o].y) = N(o)
            /\ InSync(o)

C6_Witness ==
    /\ Idling
    /\ last.op = "step"
    /\ last.who = "p"
    /\ last.dt = 2
    /\ Integrating("p")
    /\ obs["p"].integrator[1].max_step = 1
    /\ obs["p"].integrator[1].order = 2
    /\ obs["p"].t = 2

\* C7: when measure() has returned on an Observable that tracks a source, its
\* t is the source's t and each entry of its y is the source's value at the
\* same vertex or edge.
C7_TrackCopies ==
    \A o \in ObsIds :
        (Idling /\ last.op = "measure" /\ last.who = o /\ ~Integrating(o)
                /\ obs[o].track_other # None) =>
            LET src == obs[o].track_other
            IN /\ obs[o].t = obs[src].t
               /\ \A i \in 1..N(o) :
                    obs[o].y[i] = obs[src].y[DomainIndex(src, Domain(o)[i])]

\* C8: measure() raises 'Non-physical solution' exactly when the nonphysical
\* predicate holds of the y it has just refreshed, and step() never raises.
C8_NonPhysicalAtMeasure ==
    /\ \A o \in ObsIds :
         (Idling /\ last.op = "measure" /\ last.who = o) =>
            /\ last.ok <=> ~NonPhysical(obs[o].nonphysical, obs[o].y)
            /\ ~last.ok => last.err = "Non-physical solution"
            /\ Integrating(o) => InSync(o)
    /\ last.op = "step" => last.ok

C8_Witness ==
    /\ Idling
    /\ last.op = "step"
    /\ last.ok
    /\ Integrating(last.who)
    /\ obs[last.who].nonphysical = "big"
    /\ NonPhysical(obs[last.who].nonphysical, obs[last.who].y)

\* C9: System(observables) fails, building no System, when the list is empty,
\* when two members have one type or when a member is on another graph than
\* the first, and otherwise holds the members in the order given.
C9_SystemConstruction ==
    last.op = "System" =>
        LET l == last.arg
            rejected == \/ Len(l) = 0
                        \/ \E i, j \in 1..Len(l) : i # j /\ ObsKind(l[i]) = ObsKind(l[j])
                        \/ \E i \in 1..Len(l) : ObsGraph(l[i]) # ObsGraph(l[1])
        IN /\ last.ok <=> ~rejected
           /\ last.ok => sys = l
           /\ ~last.ok => (sys = <<>> /\ last.err = "AssertionError")

C9_Witness ==
    /\ last.op = "System"
    /\ last.ok
    /\ Len(sys) = 2
    /\ sys = last.arg

\* C10 (as amended): set_initial fails exactly when an integrator is installed
\* and the count of its keyword initial conditions is not order - 1; t0, t,
\* y0, y and init_kwargs are assigned before it fails.
C10_ArityWithIntegrator ==
    \A o \in ObsIds :
        (Idling /\ last.op = "set_initial" /\ last.who = o) =>
            /\ last.ok <=> ~(Integrating(o) /\ Len(obs[o].init_kwargs) # obs[o].order - 1)
            /\ ~last.ok => last.err = "AssertionError"
            /\ obs[o].t = obs[o].t0
            /\ obs[o].y = Populate(o, obs[o].y0)

C10_Witness ==
    /\ Idling
    /\ last.op = "set_initial"
    /\ ~last.ok
    /\ obs[last.who].order = 2
    /\ obs[last.who].init_kwargs = <<>>

\* C10 (as stated): set_initial on an Observable of ODE order k fails unless
\* it is given exactly k - 1 keyword initial conditions.
C10_ArityChecked ==
    \A o \in ObsIds :
        (Idling /\ last.op = "set_initial" /\ last.who = o /\ obs[o].order >= 1
                /\ Len(obs[o].init_kwargs) # obs[o].order - 1) =>
            ~last.ok

\* A call that ran from idle to idle and left last as the record of op (only
\* the call op itself does so)
Called(op) ==
    /\ Idling
    /\ pc' = pc
    /\ last'.op = op

\* C11: track(other) fails, changing nothing, when self has an integrator,
\* when other is of another type or when an element of self's domain is not
\* in other's; otherwise it returns and has set track_other to other only.
C11_TrackPreconditions ==
    [][Called("track") =>
         LET o == last'.who
             other == last'.arg[1]
             fails == \/ obs[o].integrator # <<>>
                      \/ ObsKind(o) # ObsKind(other)
                      \/ \E i \in 1..Len(Domain(o)) :
                            \A j \in 1..Len(Domain(other)) :
                                Domain(other)[j] # Domain(o)[i]
         IN /\ last'.ok <=> ~fails
            /\ fails => (obs' = obs /\ last'.err = "AssertionError")
            /\ ~fails => obs' = [obs EXCEPT ![o].track_other = other]]_vars

C11_Witness ==
    /\ Idling
    /\ last.op = "track"
    /\ ~last.ok
    /\ ObsKind(last.who) = ObsKind(last.arg[1])
    /\ ~Integrating(last.who)
    /\ obs[last.who].track_other = None

\* C12: step(dt) on an Observable with no integrator returns having changed
\* nothing: t, y, t0, the boundary maps and track_other are as before.
C12_StepWithoutIntegrator ==
    [][(Called("step") /\ obs[last'.who].integrator = <<>>) =>
          (obs' = obs /\ last'.ok)]_vars

C12_Witness ==
    /\ Idling
    /\ last.op = "step"
    /\ last.dt = 2
    /\ ~Integrating(last.who)
    /\ obs[last.who].track_other # None
    /\ obs[last.who].t # obs[obs[last.who].track_other].t

\* C13: reset() is idempotent: in the state a reset() has left, a second
\* reset() ends as the first did and changes no field of any Observable
\* (t, t0, y, the boundary maps, fixed_idx, the integrator's time and state).
C13_ResetIdempotent ==
    (Idling /\ last.op = "reset") =>
        LET again == reset(obs, last.who)
        IN /\ again.S = obs
           /\ again.ok = last.ok
           /\ again.err = last.err

C13_Witness ==
    /\ Idling
    /\ last.op = "reset"
    /\ last.ok
    /\ obs[last.who].track_other # None
    /\ obs[last.who].dirichlet_values # <<>>
    /\ obs[obs[last.who].track_other].t > 0

\* C14: integrate(t0, tf) leaves t = tf and y a vector with one scalar per
\* domain element (the first n components of the solution at tf).
C14_IntegrateFinalBlock ==
    \A o \in ObsIds :
        (Idling /\ last.op = "integrate" /\ last.who = o /\ last.ok) =>
            /\ obs[o].t = last.arg[2]
            /\ Len(obs[o].y) = N(o)

\* C15: after set_initial has set y to populate(y0), reading the Observable
\* at every element x of its domain returns y0(x), for a VertexObservable and
\* for an EdgeObservable read at its own edges.
C15_PopulateReadRoundTrip ==
    \A o \in ObsIds :
        (Idling /\ last.op = "set_initial" /\ last.who = o) =>
            \A i \in 1..N(o) :
                Call(obs, o, Domain(o)[i]) = ICValue(obs[o].y0, Domain(o)[i])

\* The vertices (as keys) or the edges of the graph Observable o is built on
Elements(o) ==
    IF ObsKind(o) = "VertexObservable"
    THEN {<<Nodes(ObsGraph(o))[i]>> : i \in 1..Len(Nodes(ObsGraph(o)))}
    ELSE Range(Edges(ObsGraph(o)))

Pipeline ==
    view.handled \o (IF view.cur = 0 THEN <<>> ELSE <<view.cur>>) \o view.ticks
        \o view.listener \o view.net

\* C17: in the viewer the listener thread runs no callback itself, every
\* message it receives is queued on the event loop and handled there in the
\* order received, and at most one callback (react, update, a button's) runs
\* at a time.
C17_ViewerSerialized ==
    /\ \A a \in view.active : a[1] = "loop"
    /\ Cardinality(view.active) <= 1
    /\ Pipeline = [i \in 1..view.sent |-> i]
    /\ (view.cur # 0) <=> (<<"loop", "react">> \in view.active)

C17_Witness ==
    /\ <<"loop", "update">> \in view.active
    /\ view.ticks # <<>>
    /\ view.listener # <<>>
    /\ view.handled = <<>>

\* In S, y of o at every Dirichlet index is the value configured for it
PinnedIn(S, o) ==
    \A i \in 1..Len(S[o].dirichlet_values) :
        S[o].y[DomainIndex(o, S[o].dirichlet_values[i][1])]
            = S[o].dirichlet_values[i][2]

\* C18: a set_initial call made once set_boundary(D, N) has returned (with
\* only step calls in between) leaves y at every Dirichlet index equal to
\* D[k], also in the state the rebuilt integrator starts from.
C18_PinsSurviveSetInitial ==
    [][(Called("set_initial") /\ last'.ok /\ hist[last'.who].pinned) =>
          LET o == last'.who
          IN /\ PinnedIn(obs', o)
             /\ obs'[o].integrator # <<>> =>
                  PinnedIn([obs' EXCEPT ![o].y = obs'[o].integrator[1].y], o)]_vars

\* C19: whenever an integrator is installed, after every public operation
\* (set_ode, set_initial, set_boundary, step, measure, integrate, reset)
\* returns, t equals the integrator's time and y equals the top n components
\* of the integrator's state.
C19_SyncedAfterEveryOperation ==
    (/\ Idling
     /\ last.ok
     /\ last.op \in {"set_ode", "set_initial", "set_boundary", "step",
                     "measure", "integrate", "reset"}
     /\ Integrating(last.who)) => InSync(last.who)

\* C20: the max_step given to set_ode is kept by every later integrator
\* rebuild: a set_initial, set_boundary or reset call made with an integrator
\* installed leaves the installed integrator with the same maximum sub-step.
C20_MaxStepKept ==
    [][(/\ Idling
        /\ pc' = pc
        /\ last'.op \in {"set_initial", "set_boundary", "reset"}
        /\ last'.ok
        /\ obs[last'.who].integrator # <<>>) =>
          /\ obs'[last'.who].integrator # <<>>
          /\ obs'[last'.who].integrator[1].max_step
                = obs[last'.who].integrator[1].max_step]_vars

\* o is configured in one of the two supported ways: it tracks a source that
\* passed track's preconditions and has no integrator, or it has an integrator
\* and tracks nothing
TrackingOnly(o) == obs[o].track_other # None /\ ~Integrating(o)
IntegratingOnly(o) == obs[o].track_other = None /\ Integrating(o)

\* C21: reset() never fails on a correctly configured Observable: it returns
\* (a) on a tracking Observable whatever boundary keys its source has, and
\* (b) on an integrating Observable of any order, whether or not set_initial
\* was called after set_ode.
C21_ResetNeverFails ==
    (/\ Idling
     /\ last.op = "reset"
     /\ TrackingOnly(last.who) \/ IntegratingOnly(last.who)) => last.ok

\* C22: in the viewer, update and reset_button_cb never read renderers[0]
\* while the list of loaded systems is empty, under every interleaving of
\* Play, Pause and Reset clicks with the arrival of the init message, and at
\* most one periodic update callback is registered at any time.
C22_CallbacksSeeSystems ==
    /\ \A e \in view.errs : e[2] # "IndexError"
    /\ view.periodic <= 1

\* C23: the init message published by render_live is accepted by react: once
\* it is the message handled last, the viewer holds one renderer for each
\* system passed to render_live, each with its plot.
C23_InitAccepted ==
    (/\ view.handled # <<>>
     /\ view.bodies[view.handled[Len(view.handled)]].key = "systems") =>
       LET k == view.bodies[view.handled[Len(view.handled)]].n
       IN /\ Len(view.renderers) = k
          /\ (1..k) \subseteq view.plots

====
